---- MODULE Spec2Model ----
(***************************************************************************)
(* A model of vigyan's indexing pipeline: the LanceDB-backed vector store  *)
(* (vectordb/lancedb_store.py), the ingest pipeline (pipeline.py) and the  *)
(* GROBID TEI parser's pure functions (parsers/grobid.py).                 *)
(*                                                                         *)
(* The database at one uri is shared by all callers.  Every caller owns    *)
(* one LanceDBVectorStore object at a time (the repository starts no       *)
(* thread: concurrency is between callers, each with its own store object  *)
(* on the same uri).  A step of the model is one access to the database or *)
(* to a collaborator together with the local code around it.               *)
(***************************************************************************)
EXTENDS Integers, Sequences, FiniteSets, TLC

VARIABLES
    tables,      \* names of the tables that exist in the database
    docsRows,    \* rows of the documents table, in insertion order
    chunkRows,   \* rows of the chunks table, in insertion order
    ftsIndex,    \* the chunks table has a full-text index
    store,       \* per caller: the fields of its LanceDBVectorStore object
    pc,          \* per caller: position in the running call
    op,          \* per caller: the top-level call being run
    frame,       \* per caller: the locals of ingest_pdf
    exc,         \* per caller: how the last call ended ("none" before any call)
    ret,         \* per caller: what the last call returned
    calls,       \* number of calls started so far, by all callers
    ingested,    \* history: how often ingest_pdf has returned each Document
    halfDone,    \* history: how often ingest_pdf raised after writing the
                 \* row of each Document
    tei,         \* the header fields _meta_from_tei has read from a TEI document
    metaDoc,     \* the Document _meta_from_tei returned for them, once it has
    teiNodes,    \* the paragraph nodes of a TEI document
    parsed,      \* what _parse_tei_to_paragraphs did with them, once it has
    em,          \* the extract_metadata call: position, service answers, outcome
    slugArg,     \* a string given to _slugify
    slugRet      \* what _slugify returned for it, once it has

storeVars == <<tables, docsRows, chunkRows, ftsIndex, store, pc, op, frame, exc, ret,
               calls, ingested, halfDone>>

parserVars == <<tei, metaDoc, teiNodes, parsed, em, slugArg, slugRet>>

vars == <<storeVars, parserVars>>

----------------------------------------------------------------------------
(* Bounds and inputs *)

MaxCalls == 3

Callers == {"A", "B"}

DefaultTopK == 8

NoneV == <<>>
Some(x) == <<x>>

Pdfs == {"pdf1", "pdf2"}

RECURSIVE SeqMax(_, _)
SeqMax(s, default) ==
    IF s = <<>> THEN default
    ELSE LET m == SeqMax(Tail(s), default)
         IN IF Tail(s) = <<>> THEN Head(s) ELSE IF Head(s) > m THEN Head(s) ELSE m

(* What the DocumentParser collaborator yields for each input file. *)
ParserParagraphs(pdf) ==
    IF pdf = "pdf1"
    THEN << [text |-> "intro", page_start |-> 1, page_end |-> 1,
             para_id |-> Some("p1"), coords |-> Some("1,0,0,1,1")],
            [text |-> "method", page_start |-> 2, page_end |-> 3,
             para_id |-> NoneV, coords |-> NoneV] >>
    ELSE << >>

ParserMeta(pdf) ==
    IF pdf = "pdf1"
    THEN [doc_id |-> "doi-10-1-x", title |-> "Analytical Engines",
          authors |-> <<"Ada Lovelace", "Charles Babbage">>,
          venue |-> Some("J"), year |-> Some(1843), doi |-> Some("10.1/x"),
          arxiv_id |-> NoneV, url |-> NoneV, pdf_sha256 |-> NoneV, n_pages |-> 0]
    ELSE [doc_id |-> "docnd-untitled", title |-> "Untitled",
          authors |-> << >>,
          venue |-> NoneV, year |-> NoneV, doi |-> NoneV,
          arxiv_id |-> NoneV, url |-> Some("http://u"), pdf_sha256 |-> NoneV,
          n_pages |-> 0]

(* A Document the caller built itself and passes as meta. *)
SuppliedMeta ==
    [doc_id |-> "mine", title |-> "Mine", authors |-> <<"Solo Author">>,
     venue |-> NoneV, year |-> NoneV, doi |-> NoneV, arxiv_id |-> NoneV,
     url |-> NoneV, pdf_sha256 |-> NoneV, n_pages |-> 0]

MetaArgs == {NoneV, Some(SuppliedMeta)}

_hash_pdf(pdf) == <<"sha256", pdf>>

----------------------------------------------------------------------------
(* LanceDBVectorStore *)

FreshStore ==
    [embedding_fn |-> FALSE, db |-> FALSE, docs_tbl |-> FALSE, chunks_tbl |-> FALSE]

EmptyFrame ==
    [doc |-> NoneV, chunks |-> << >>]

NoReturn == [doc |-> NoneV, hits |-> << >>]

(* No extract_metadata call has been made. *)
EmIdle ==
    [pc |-> "idle", header |-> NoneV, full |-> NoneV, header_calls |-> 0,
     full_calls |-> 0, result |-> NoneV, raised |-> "none"]

(* The call of caller c ends: normally with value r (e = "ok"), or by raising e. *)
Finish(c, e, r) ==
    /\ pc' = [pc EXCEPT ![c] = "idle"]
    /\ frame' = [frame EXCEPT ![c] = EmptyFrame]
    /\ exc' = [exc EXCEPT ![c] = e]
    /\ ret' = [ret EXCEPT ![c] = r]

Raise(c, e) == Finish(c, e, NoReturn)

Goto(c, label) ==
    /\ pc' = [pc EXCEPT ![c] = label]
    /\ UNCHANGED <<exc, ret>>

(* An idle caller starts a call. *)
Begin(c) ==
    /\ pc[c] = "idle"
    /\ calls < MaxCalls
    /\ calls' = calls + 1

(* LanceDBVectorStore(uri=...): the caller replaces its store object. *)
NewStore(c) ==
    /\ UNCHANGED parserVars
    /\ pc[c] = "idle"
    /\ store[c] # FreshStore
    /\ store' = [store EXCEPT ![c] = FreshStore]
    /\ UNCHANGED <<tables, docsRows, chunkRows, ftsIndex, pc, op, frame, exc, ret,
                   calls, ingested, halfDone>>

(* create_or_open without the look at db.table_names(): it always creates. *)
TableBranch_AlwaysCreate(name, names, openLabel, createLabel) == createLabel

(* The branch create_or_open takes for a table after reading db.table_names(). *)
TableBranch(name, names, openLabel, createLabel) ==
    IF name \in names THEN openLabel ELSE createLabel

(* lines 117-123: the embedding function, the connection, the first table_names() *)
CoEnter(c) ==
    \/ /\ ~store[c].embedding_fn          \* _create_embedding_fn raises
       /\ Raise(c, "ProviderError")
       /\ UNCHANGED store
    \/ /\ store' = [store EXCEPT ![c].embedding_fn = TRUE]
       /\ \/ Raise(c, "ConnectError")     \* lancedb.connect raises
          \/ /\ pc' = [pc EXCEPT ![c] = TableBranch("documents", tables,
                                                    "co_open_docs", "co_create_docs")]
             /\ UNCHANGED <<frame, exc, ret>>

(* A caller calls store.create_or_open(). *)
CallCreateOrOpen(c) ==
    /\ UNCHANGED parserVars
    /\ UNCHANGED <<ingested, halfDone>>
    /\ Begin(c)
    /\ op' = [op EXCEPT ![c] = "create_or_open"]
    /\ CoEnter(c)
    /\ UNCHANGED <<tables, docsRows, chunkRows, ftsIndex>>

(* line 79: ingest_pdf calls store.create_or_open(). *)
CoBegin(c) ==
    /\ UNCHANGED parserVars
    /\ UNCHANGED <<ingested, halfDone>>
    /\ pc[c] = "co_begin"
    /\ UNCHANGED op
    /\ CoEnter(c)
    /\ UNCHANGED <<tables, docsRows, chunkRows, ftsIndex, calls>>

(* db.create_table(name, mode="create"): raises when the table exists. *)
CreateTableRaises(name, names) == name \in names

(* lines 124-128 *)
CoDocsTable(c) ==
    /\ UNCHANGED parserVars
    /\ UNCHANGED <<ingested, halfDone>>
    /\ pc[c] \in {"co_open_docs", "co_create_docs"}
    /\ UNCHANGED op
    /\ UNCHANGED <<docsRows, chunkRows, ftsIndex, store, calls>>
    /\ IF pc[c] = "co_open_docs"
       THEN IF "documents" \in tables
            THEN Goto(c, "co_check_chunks") /\ UNCHANGED <<tables, frame>>
            ELSE Raise(c, "TableNotFound") /\ UNCHANGED tables
       ELSE IF CreateTableRaises("documents", tables)
            THEN Raise(c, "TableAlreadyExists") /\ UNCHANGED tables
            ELSE /\ tables' = tables \cup {"documents"}
                 /\ Goto(c, "co_check_chunks")
                 /\ UNCHANGED frame

(* lines 130-132: the second table_names() *)
CoCheckChunks(c) ==
    /\ UNCHANGED parserVars
    /\ UNCHANGED <<ingested, halfDone>>
    /\ pc[c] = "co_check_chunks"
    /\ Goto(c, TableBranch("chunks", tables, "co_open_chunks", "co_create_chunks"))
    /\ UNCHANGED op
    /\ UNCHANGED <<tables, docsRows, chunkRows, ftsIndex, store, frame, calls>>

(* lines 133-135 *)
CoChunksTable(c) ==
    /\ UNCHANGED parserVars
    /\ UNCHANGED <<ingested, halfDone>>
    /\ pc[c] \in {"co_open_chunks", "co_create_chunks"}
    /\ UNCHANGED op
    /\ UNCHANGED <<docsRows, chunkRows, ftsIndex, store, calls>>
    /\ IF pc[c] = "co_open_chunks"
       THEN IF "chunks" \in tables
            THEN Goto(c, "co_finish") /\ UNCHANGED <<tables, frame>>
            ELSE Raise(c, "TableNotFound") /\ UNCHANGED tables
       ELSE IF CreateTableRaises("chunks", tables)
            THEN Raise(c, "TableAlreadyExists") /\ UNCHANGED tables
            ELSE /\ tables' = tables \cup {"chunks"}
                 /\ Goto(c, "co_finish")
                 /\ UNCHANGED frame

(* The store object after lines 143-145. *)
AssignHandles(s) == [s EXCEPT !.db = TRUE, !.docs_tbl = TRUE, !.chunks_tbl = TRUE]

(* lines 137-145: the full-text index (any failure swallowed), then the handles *)
CoFinish(c) ==
    /\ UNCHANGED parserVars
    /\ UNCHANGED <<ingested, halfDone>>
    /\ pc[c] = "co_finish"
    /\ ftsIndex' \in {ftsIndex, TRUE}
    /\ store' = [store EXCEPT ![c] = AssignHandles(store[c])]
    /\ IF op[c] = "ingest_pdf"
       THEN Goto(c, "ing_upsert_docs") /\ UNCHANGED frame
       ELSE Finish(c, "ok", NoReturn)
    /\ UNCHANGED op
    /\ UNCHANGED <<tables, docsRows, chunkRows, calls>>

----------------------------------------------------------------------------
(* upsert_documents / upsert_chunks / search *)

(* line 150, the DocumentRecord built from a Document: its persisted columns
   (tei_xml and created_at carry no information here). *)
DocumentRecord(d) ==
    [doc_id |-> d.doc_id, title |-> d.title, authors |-> d.authors,
     venue |-> d.venue, year |-> d.year, doi |-> d.doi, arxiv_id |-> d.arxiv_id,
     url |-> d.url, pdf_sha256 |-> d.pdf_sha256, n_pages |-> d.n_pages]

(* upsert_documents that never reaches the table's add. *)
DocsAfterUpsert_NoAdd(tbl, docs) == tbl

(* upsert_documents as a true upsert: the rows written replace the rows the table
   has for their doc_ids. *)
DocsAfterUpsert_Merge(tbl, docs) ==
    SelectSeq(tbl, LAMBDA r : \A i \in 1..Len(docs) : docs[i].doc_id # r.doc_id)
        \o [i \in 1..Len(docs) |-> docs[i]]

(* lines 149-154: the documents table after upsert_documents(docs) *)
DocsAfterUpsert(tbl, docs) ==
    LET rows == [i \in 1..Len(docs) |-> DocumentRecord(docs[i])]
    IN IF rows # << >> THEN tbl \o rows ELSE tbl

(* lines 158-160: the chunks table after upsert_chunks(chunks) *)
ChunksAfterUpsert(tbl, chunks) ==
    LET rows == chunks
    IN IF rows # << >> THEN tbl \o rows ELSE tbl

(* upsert_documents that looks at _embedding_fn instead of the table handle. *)
DocsHandleSet_EmbeddingFn(s) == s.embedding_fn

(* The assert that opens upsert_documents (line 148). *)
DocsHandleSet(s) == s.docs_tbl

(* The assert that opens upsert_chunks and search (lines 157, 165). *)
ChunksHandleSet(s) == s.chunks_tbl

(* The hit whose citation always gives a page range. *)
_format_hit_AlwaysRange(h) ==
    LET authors == h.authors
        short_auth == IF authors # << >> /\ Len(authors) > 1
                      THEN <<authors[1], " et al.">>
                      ELSE IF authors # << >> THEN <<authors[1]>> ELSE <<"Unknown">>
        year == IF h.year # NoneV /\ h.year # Some(0) THEN h.year ELSE <<"">>
        pp == <<"pp. ", h.page_start, "-", h.page_end>>
    IN [doc_id |-> h.doc_id, title |-> h.title, year |-> h.year, doi |-> h.doi,
        arxiv_id |-> h.arxiv_id, page_span |-> <<h.page_start, h.page_end>>,
        text |-> h.text,
        citation |-> <<short_auth, " ", h.title, " (", year, "), ", pp>>]

(* lines 194-221 *)
_format_hit(h) ==
    LET authors == h.authors
        short_auth == IF authors # << >> /\ Len(authors) > 1
                      THEN <<authors[1], " et al.">>
                      ELSE IF authors # << >> THEN <<authors[1]>> ELSE <<"Unknown">>
        year == IF h.year # NoneV /\ h.year # Some(0) THEN h.year ELSE <<"">>
        pp == IF h.page_start = h.page_end
              THEN <<"p. ", h.page_start>>
              ELSE <<"pp. ", h.page_start, "-", h.page_end>>
    IN [doc_id |-> h.doc_id, title |-> h.title, year |-> h.year, doi |-> h.doi,
        arxiv_id |-> h.arxiv_id, page_span |-> <<h.page_start, h.page_end>>,
        text |-> h.text,
        citation |-> <<short_auth, " ", h.title, " (", year, "), ", pp>>]

(* The rows the engine returns for a query: at most top_k rows of the table. *)
EngineRows(tbl, top_k) ==
    SubSeq(tbl, 1, IF Len(tbl) < top_k THEN Len(tbl) ELSE top_k)

(* lines 166-192 *)
SearchHits(tbl, top_k) ==
    LET hits == EngineRows(tbl, top_k)
    IN [i \in 1..Len(hits) |-> _format_hit(hits[i])]

----------------------------------------------------------------------------
(* ingest_pdf *)

(* The Document with the number of paragraphs as n_pages. *)
MakeDocument_CountParagraphs(meta, pdf, paragraphs) ==
    [meta EXCEPT !.pdf_sha256 = Some(_hash_pdf(pdf)), !.n_pages = Len(paragraphs)]

(* The Document that always takes the doc_id the parser derives for the file. *)
MakeDocument_ParserDocId(meta, pdf, paragraphs) ==
    [meta EXCEPT
       !.doc_id = ParserMeta(pdf).doc_id,
       !.pdf_sha256 = Some(_hash_pdf(pdf)),
       !.n_pages = SeqMax([i \in 1..Len(paragraphs) |-> paragraphs[i].page_end], 0)]

(* lines 36-46 *)
MakeDocument(meta, pdf, paragraphs) ==
    [meta EXCEPT
       !.pdf_sha256 = Some(_hash_pdf(pdf)),
       !.n_pages = SeqMax([i \in 1..Len(paragraphs) |-> paragraphs[i].page_end], 0)]

(* The chunks when one uuid is drawn before the loop instead of one per paragraph. *)
BuildChunks_OneUuid(paragraphs, doc, source_url, n) ==
    [i \in 1..Len(paragraphs) |->
       LET p == paragraphs[i]
       IN [chunk_id |-> <<n, 1>>, doc_id |-> doc.doc_id, text |-> p.text,
           page_start |-> p.page_start, page_end |-> p.page_end,
           para_ids |-> IF p.para_id # NoneV THEN <<p.para_id[1]>> ELSE << >>,
           section_path |-> << >>,
           coords |-> IF p.coords # NoneV THEN <<p.coords[1]>> ELSE << >>,
           title |-> doc.title, authors |-> doc.authors, venue |-> doc.venue,
           year |-> doc.year, doi |-> doc.doi, arxiv_id |-> doc.arxiv_id,
           source_url |-> IF source_url # NoneV THEN source_url ELSE doc.url]]

(* lines 49-76: one Chunk per paragraph.  uuid4 never repeats: the i-th uuid drawn
   by the call numbered n is <<n, i>>. *)
BuildChunks(paragraphs, doc, source_url, n) ==
    [i \in 1..Len(paragraphs) |->
       LET p == paragraphs[i]
       IN [chunk_id |-> <<n, i>>,
           doc_id |-> doc.doc_id,
           text |-> p.text,
           page_start |-> p.page_start,
           page_end |-> p.page_end,
           para_ids |-> IF p.para_id # NoneV THEN <<p.para_id[1]>> ELSE << >>,
           section_path |-> << >>,
           coords |-> IF p.coords # NoneV THEN <<p.coords[1]>> ELSE << >>,
           title |-> doc.title,
           authors |-> doc.authors,
           venue |-> doc.venue,
           year |-> doc.year,
           doi |-> doc.doi,
           arxiv_id |-> doc.arxiv_id,
           source_url |-> IF source_url # NoneV THEN source_url ELSE doc.url]]

(* The Documents ingest_pdf can build from the inputs. *)
IngestDocs ==
    { MakeDocument(IF meta = NoneV THEN ParserMeta(pdf) ELSE meta[1], pdf,
                   ParserParagraphs(pdf)) : pdf \in Pdfs, meta \in MetaArgs }

InitStore ==
    /\ tables = {}
    /\ docsRows = << >>
    /\ chunkRows = << >>
    /\ ftsIndex = FALSE
    /\ store = [c \in Callers |-> FreshStore]
    /\ pc = [c \in Callers |-> "idle"]
    /\ op = [c \in Callers |-> "none"]
    /\ frame = [c \in Callers |-> EmptyFrame]
    /\ exc = [c \in Callers |-> "none"]
    /\ ret = [c \in Callers |-> NoReturn]
    /\ calls = 0
    /\ ingested = [d \in IngestDocs |-> 0]
    /\ halfDone = [d \in IngestDocs |-> 0]

(* No TEI document is being parsed. *)
InitParser ==
    /\ tei = NoneV
    /\ metaDoc = NoneV
    /\ teiNodes = << >>
    /\ parsed = NoneV
    /\ em = EmIdle
    /\ slugArg = NoneV
    /\ slugRet = NoneV

Init == InitStore /\ InitParser

(* store.dim (lines 97-101) raises until create_or_open has set _embedding_fn;
   the loop of lines 50-76 reads it once per paragraph. *)
DimRaises(s, paragraphs) == paragraphs # << >> /\ ~s.embedding_fn

(* lines 29-76: a caller calls ingest_pdf(pdf, meta, parser, store); the metadata,
   the paragraphs, the Document and the chunks, up to the call of create_or_open. *)
CallIngestPdf(c, pdf, meta) ==
    /\ UNCHANGED parserVars
    /\ UNCHANGED <<ingested, halfDone>>
    /\ Begin(c)
    /\ op' = [op EXCEPT ![c] = "ingest_pdf"]
    /\ UNCHANGED <<tables, docsRows, chunkRows, ftsIndex, store>>
    /\ \/ /\ meta = NoneV                       \* parser.extract_metadata raises
          /\ Raise(c, "ExtractMetadataError")
       \/ Raise(c, "ParseError")                \* parser.parse raises
       \/ LET m == IF meta = NoneV THEN ParserMeta(pdf) ELSE meta[1]
              paragraphs == ParserParagraphs(pdf)
              doc == MakeDocument(m, pdf, paragraphs)
          IN IF DimRaises(store[c], paragraphs)
             THEN Raise(c, "RuntimeError")
             ELSE /\ frame' = [frame EXCEPT ![c] =
                                 [doc |-> Some(doc),
                                  chunks |-> BuildChunks(paragraphs, doc, NoneV, calls + 1)]]
                  /\ Goto(c, "co_begin")

(* line 80: store.upsert_documents([doc]) *)
IngestUpsertDocs(c) ==
    /\ UNCHANGED parserVars
    /\ UNCHANGED <<ingested, halfDone>>
    /\ pc[c] = "ing_upsert_docs"
    /\ UNCHANGED op
    /\ UNCHANGED <<tables, chunkRows, ftsIndex, store, calls>>
    /\ IF ~DocsHandleSet(store[c])
       THEN Raise(c, "AssertionError") /\ UNCHANGED docsRows
       ELSE \/ Raise(c, "StoreError") /\ UNCHANGED docsRows    \* the table's add raises
            \/ /\ docsRows' = DocsAfterUpsert(docsRows, <<frame[c].doc[1]>>)
               /\ Goto(c, "ing_upsert_chunks")
               /\ UNCHANGED frame

(* lines 81-82: store.upsert_chunks(chunks); return doc *)
IngestUpsertChunks(c) ==
    /\ UNCHANGED parserVars
    /\ pc[c] = "ing_upsert_chunks"
    /\ UNCHANGED op
    /\ UNCHANGED <<tables, docsRows, ftsIndex, store, calls>>
    /\ IF ~ChunksHandleSet(store[c])
       THEN /\ Raise(c, "AssertionError")
            /\ halfDone' = [halfDone EXCEPT ![frame[c].doc[1]] = @ + 1]
            /\ UNCHANGED <<chunkRows, ingested>>
       ELSE \/ /\ frame[c].chunks # << >>                      \* the table's add raises
               /\ Raise(c, "StoreError")
               /\ halfDone' = [halfDone EXCEPT ![frame[c].doc[1]] = @ + 1]
               /\ UNCHANGED <<chunkRows, ingested>>
            \/ /\ chunkRows' = ChunksAfterUpsert(chunkRows, frame[c].chunks)
               /\ Finish(c, "ok", [NoReturn EXCEPT !.doc = frame[c].doc])
               /\ ingested' = [ingested EXCEPT ![frame[c].doc[1]] = @ + 1]
               /\ UNCHANGED halfDone

----------------------------------------------------------------------------
(* Calls made on the store directly *)

DocLists == { << >>, <<SuppliedMeta>>, <<ParserMeta("pdf1"), SuppliedMeta>> }

(* A Chunk whose doc_id names no ingested document. *)
LooseChunk ==
    [chunk_id |-> <<0, 0>>, doc_id |-> "loose", text |-> "t", page_start |-> 4,
     page_end |-> 4, para_ids |-> << >>, section_path |-> << >>, coords |-> << >>,
     title |-> "Loose", authors |-> << >>, venue |-> NoneV, year |-> NoneV,
     doi |-> NoneV, arxiv_id |-> NoneV, source_url |-> NoneV]

ChunkLists == { << >>, <<LooseChunk>> }

(* lines 147-154 *)
UpsertDocuments(c, docs) ==
    /\ UNCHANGED parserVars
    /\ UNCHANGED <<ingested, halfDone>>
    /\ Begin(c)
    /\ op' = [op EXCEPT ![c] = "upsert_documents"]
    /\ UNCHANGED <<tables, chunkRows, ftsIndex, store, frame>>
    /\ IF ~DocsHandleSet(store[c])
       THEN Raise(c, "AssertionError") /\ UNCHANGED docsRows
       ELSE \/ /\ docs # << >>
               /\ Raise(c, "StoreError") /\ UNCHANGED docsRows
            \/ /\ docsRows' = DocsAfterUpsert(docsRows, docs)
               /\ Finish(c, "ok", NoReturn)

(* lines 156-160 *)
UpsertChunks(c, chunks) ==
    /\ UNCHANGED parserVars
    /\ UNCHANGED <<ingested, halfDone>>
    /\ Begin(c)
    /\ op' = [op EXCEPT ![c] = "upsert_chunks"]
    /\ UNCHANGED <<tables, docsRows, ftsIndex, store, frame>>
    /\ IF ~ChunksHandleSet(store[c])
       THEN Raise(c, "AssertionError") /\ UNCHANGED chunkRows
       ELSE \/ /\ chunks # << >>
               /\ Raise(c, "StoreError") /\ UNCHANGED chunkRows
            \/ /\ chunkRows' = ChunksAfterUpsert(chunkRows, chunks)
               /\ Finish(c, "ok", NoReturn)

(* lines 162-192 *)
Search(c, top_k) ==
    /\ UNCHANGED parserVars
    /\ UNCHANGED <<ingested, halfDone>>
    /\ Begin(c)
    /\ op' = [op EXCEPT ![c] = "search"]
    /\ UNCHANGED <<tables, docsRows, chunkRows, ftsIndex, store, frame>>
    /\ IF ~ChunksHandleSet(store[c])
       THEN Raise(c, "AssertionError")
       ELSE \/ Raise(c, "StoreError")
            \/ Finish(c, "ok", [NoReturn EXCEPT !.hits = SearchHits(chunkRows, top_k)])

----------------------------------------------------------------------------
(* Specifications *)

(* The steps of a call in progress. *)
Step(c) ==
    \/ CoBegin(c)
    \/ CoDocsTable(c)
    \/ CoCheckChunks(c)
    \/ CoChunksTable(c)
    \/ CoFinish(c)
    \/ IngestUpsertDocs(c)
    \/ IngestUpsertChunks(c)

(* The calls of the pipeline's users: ingest_pdf, create_or_open, search. *)
PipelineCall(c) ==
    \/ NewStore(c)
    \/ CallCreateOrOpen(c)
    \/ \E pdf \in Pdfs, meta \in MetaArgs : CallIngestPdf(c, pdf, meta)
    \/ \E k \in {1, DefaultTopK} : Search(c, k)

(* Direct writes to the store. *)
StoreCall(c) ==
    \/ \E docs \in DocLists : UpsertDocuments(c, docs)
    \/ \E chunks \in ChunkLists : UpsertChunks(c, chunks)

Next == \E c \in Callers : Step(c) \/ PipelineCall(c)

NextStore == \E c \in Callers : Step(c) \/ PipelineCall(c) \/ StoreCall(c)

NextSeq == Step("A") \/ PipelineCall("A") \/ StoreCall("A")

(* Concurrent callers of the pipeline. *)
Spec == Init /\ [][Next]_vars

(* Concurrent callers of the pipeline and of the store's own methods. *)
SpecStore == Init /\ [][NextStore]_vars

(* One caller: every call returns before the next starts. *)
SpecSeq == Init /\ [][NextSeq]_vars

----------------------------------------------------------------------------
(* GrobidParser._meta_from_tei: the doc_id.  A string is the sequence of its
   characters. *)

LowerAlphabet ==
    <<"a", "b", "c", "d", "e", "f", "g", "h", "i", "j", "k", "l", "m",
      "n", "o", "p", "q", "r", "s", "t", "u", "v", "w", "x", "y", "z">>
UpperAlphabet ==
    <<"A", "B", "C", "D", "E", "F", "G", "H", "I", "J", "K", "L", "M",
      "N", "O", "P", "Q", "R", "S", "T", "U", "V", "W", "X", "Y", "Z">>
LowerLetters == {LowerAlphabet[i] : i \in 1..Len(LowerAlphabet)}       \* [a-z]
Digits == {"0", "1", "2", "3", "4", "5", "6", "7", "8", "9"}           \* [0-9]
Whitespace == {" ", "\t"}                                              \* \s

(* str.lower() on one character; "É" and "é" stand for the non-ASCII letters. *)
LowerOf ==
    [ch \in {UpperAlphabet[i] : i \in 1..Len(UpperAlphabet)} |->
        LowerAlphabet[CHOOSE i \in 1..Len(UpperAlphabet) : UpperAlphabet[i] = ch]]

Lower(ch) ==
    IF ch \in DOMAIN LowerOf THEN LowerOf[ch]
    ELSE IF ch = "É" THEN "é" ELSE ch

LowerStr(s) == [i \in 1..Len(s) |-> Lower(s[i])]

(* re.sub(r"\s+", "-", s) *)
RECURSIVE SubWhitespaceRuns(_)
SubWhitespaceRuns(s) ==
    IF s = << >> THEN << >>
    ELSE IF Head(s) \in Whitespace
         THEN IF Tail(s) # << >> /\ Head(Tail(s)) \in Whitespace
              THEN SubWhitespaceRuns(Tail(s))
              ELSE <<"-">> \o SubWhitespaceRuns(Tail(s))
         ELSE <<Head(s)>> \o SubWhitespaceRuns(Tail(s))

(* re.sub(r"-+", "-", s) *)
RECURSIVE SubHyphenRuns(_)
SubHyphenRuns(s) ==
    IF s = << >> THEN << >>
    ELSE IF Head(s) = "-" /\ Tail(s) # << >> /\ Head(Tail(s)) = "-"
         THEN SubHyphenRuns(Tail(s))
         ELSE <<Head(s)>> \o SubHyphenRuns(Tail(s))

(* s.lstrip(chars), s.rstrip(chars), s.strip(chars) *)
RECURSIVE LStrip(_, _)
LStrip(s, chars) ==
    IF s # << >> /\ Head(s) \in chars THEN LStrip(Tail(s), chars) ELSE s

RECURSIVE RStrip(_, _)
RStrip(s, chars) ==
    IF s # << >> /\ s[Len(s)] \in chars THEN RStrip(SubSeq(s, 1, Len(s) - 1), chars) ELSE s

Strip(s, chars) == RStrip(LStrip(s, chars), chars)

(* _slugify without the collapse of hyphen runs of line 157. *)
_slugify_NoCollapse(s) ==
    LET s1 == LowerStr(s)
        s2 == SelectSeq(s1, LAMBDA ch : ch \in LowerLetters \cup Digits \cup Whitespace \cup {"-"})
        s3 == SubWhitespaceRuns(s2)
    IN Strip(s3, {"-"})

(* lines 152-159 *)
_slugify(s) ==
    LET s1 == LowerStr(s)
        s2 == SelectSeq(s1, LAMBDA ch : ch \in LowerLetters \cup Digits \cup Whitespace \cup {"-"})
        s3 == SubWhitespaceRuns(s2)
        s4 == SubHyphenRuns(s3)
    IN Strip(s4, {"-"})

(* s.split(sep) for a one-character sep: the pieces between the separators. *)
RECURSIVE Split(_, _)
Split(s, sep) ==
    IF \A i \in 1..Len(s) : s[i] # sep THEN <<s>>
    ELSE LET k == CHOOSE i \in 1..Len(s) : s[i] = sep /\ \A j \in 1..(i - 1) : s[j] # sep
         IN <<SubSeq(s, 1, k - 1)>> \o Split(SubSeq(s, k + 1, Len(s)), sep)

(* sep.join(parts) *)
RECURSIVE Join(_, _)
Join(parts, sep) ==
    IF parts = << >> THEN << >>
    ELSE IF Len(parts) = 1 THEN parts[1]
    ELSE parts[1] \o <<sep>> \o Join(Tail(parts), sep)

(* s.replace(old, new) for one-character old and new *)
Replace(s, old, new) == [i \in 1..Len(s) |-> IF s[i] = old THEN new ELSE s[i]]

(* parts[:n] *)
Take(parts, n) == SubSeq(parts, 1, IF Len(parts) < n THEN Len(parts) ELSE n)

DigitChar(d) ==
    CASE d = 0 -> "0" [] d = 1 -> "1" [] d = 2 -> "2" [] d = 3 -> "3" [] d = 4 -> "4"
      [] d = 5 -> "5" [] d = 6 -> "6" [] d = 7 -> "7" [] d = 8 -> "8" [] d = 9 -> "9"

(* str(n) for n >= 0 *)
RECURSIVE IntToStr(_)
IntToStr(n) == IF n < 10 THEN <<DigitChar(n)>> ELSE IntToStr(n \div 10) \o <<DigitChar(n % 10)>>

TitleWordLimit == 6

(* Python truth of an optional string: neither None nor "". *)
TruthyStr(opt) == opt # NoneV /\ opt[1] # << >>

(* Python truth of an optional int: neither None nor 0. *)
TruthyInt(opt) == opt # NoneV /\ opt[1] # 0

(* The doc_id of a DOI without the replacement of "/". *)
DoiDocId_NoReplace(doi) == <<"d", "o", "i", "-">> \o _slugify(doi)

(* line 162 *)
DoiDocId(doi) == <<"d", "o", "i", "-">> \o _slugify(Replace(doi, "/", "-"))

(* line 164 *)
ArxivDocId(arxiv_id) == <<"a", "r", "x", "i", "v", "-">> \o _slugify(arxiv_id)

(* lines 166-168 *)
FirstAuthorLast(authors) ==
    _slugify(IF authors # << >>
             THEN LET toks == Split(authors[1], " ") IN toks[Len(toks)]
             ELSE <<"d", "o", "c">>)

(* line 169 *)
YearPart(year) == IF TruthyInt(year) THEN IntToStr(year[1]) ELSE <<"n", "d">>

(* lines 170-173 *)
TitlePart(title) ==
    LET title_words == Take(Split(_slugify(title), "-"), TitleWordLimit)
        joined == Join(title_words, "-")
    IN IF joined # << >> THEN joined ELSE <<"u", "n", "t", "i", "t", "l", "e", "d">>

(* The rules in another order: the arXiv id before the DOI. *)
DocId_ArxivFirst(doi, arxiv_id, authors, year, title) ==
    IF TruthyStr(arxiv_id) THEN ArxivDocId(arxiv_id[1])
    ELSE IF TruthyStr(doi) THEN DoiDocId(doi[1])
    ELSE FirstAuthorLast(authors) \o YearPart(year) \o <<"-">> \o TitlePart(title)

(* lines 161-173 *)
DocId(doi, arxiv_id, authors, year, title) ==
    IF TruthyStr(doi) THEN DoiDocId(doi[1])
    ELSE IF TruthyStr(arxiv_id) THEN ArxivDocId(arxiv_id[1])
    ELSE FirstAuthorLast(authors) \o YearPart(year) \o <<"-">> \o TitlePart(title)

(* lines 175-184: the Document built from the header fields *)
MetaDocument(h) ==
    [doc_id |-> DocId(h.doi, h.arxiv_id, h.authors, h.year, h.title),
     title |-> h.title, authors |-> h.authors, year |-> h.year, doi |-> h.doi,
     arxiv_id |-> h.arxiv_id]

(* _meta_from_tei returns. *)
MetaFromTei ==
    /\ tei # NoneV
    /\ metaDoc = NoneV
    /\ metaDoc' = Some(MetaDocument(tei[1]))
    /\ UNCHANGED <<tei, teiNodes, parsed, em, slugArg, slugRet, storeVars>>

(* The header fields _meta_from_tei can have read (lines 102-149): strings are
   stripped, author names are not empty, an identifier may be missing or empty. *)

MaxIdLen == 3
MaxNameLen == 3

StrsUpTo(alphabet, n) == UNION {[1..k -> alphabet] : k \in 0..n}

Stripped(strs) ==
    {s \in strs : s = << >> \/ (s[1] \notin Whitespace /\ s[Len(s)] \notin Whitespace)}

IdAlphabet == {"a", "A", "1", "/", ".", "-", " "}
NameAlphabet == {"a", "B", " ", "-", "é"}

IdStrs == Stripped(StrsUpTo(IdAlphabet, MaxIdLen))
NameStrs == Stripped(StrsUpTo(NameAlphabet, MaxNameLen))

SevenWords == <<"a", " ", "b", " ", "c", " ", "d", " ", "e", " ", "f", " ", "g">>
UntitledTitle == <<"U", "n", "t", "i", "t", "l", "e", "d">>      \* line 106
AdaLovelace == <<"A", "d", "a", " ", "L", "o", "v", "e", "l", "a", "c", "e">>

FewIds == {NoneV, Some(<<"2", "1", "0", "1", ".", "1">>)}
NoIds == {NoneV, Some(<< >>)}
FewAuthors == {<< >>, <<AdaLovelace, <<"B">> >>}
FewTitles == {UntitledTitle, <<"a", " ", "B">>}
FewYears == {NoneV, Some(1843)}
Years == {NoneV, Some(0), Some(1843)}

Header(d, x, a, y, t) == [doi |-> d, arxiv_id |-> x, authors |-> a, year |-> y, title |-> t]

NameLists ==
    {<< >>} \cup {<<n>> : n \in NameStrs \ {<< >>}}
            \cup {<<n, <<"B">> >> : n \in NameStrs \ {<< >>}}

(* The headers read: every DOI, every arXiv id, every author list, every title,
   each with a few values of the other fields. *)
InitHeader ==
    \/ \E d \in IdStrs, x \in FewIds, a \in FewAuthors, y \in FewYears, t \in FewTitles :
          tei = Some(Header(Some(d), x, a, y, t))
    \/ \E d \in NoIds, x \in IdStrs, a \in FewAuthors, y \in FewYears, t \in FewTitles :
          tei = Some(Header(d, Some(x), a, y, t))
    \/ \E d \in NoIds, x \in NoIds, a \in NameLists, y \in Years, t \in FewTitles \cup {<< >>} :
          tei = Some(Header(d, x, a, y, t))
    \/ \E d \in NoIds, x \in NoIds, a \in FewAuthors, y \in Years,
          t \in NameStrs \cup {SevenWords, UntitledTitle} :
          tei = Some(Header(d, x, a, y, t))

InitMeta ==
    /\ InitStore
    /\ InitHeader
    /\ metaDoc = NoneV
    /\ teiNodes = << >>
    /\ parsed = NoneV
    /\ em = EmIdle
    /\ slugArg = NoneV
    /\ slugRet = NoneV

NextMeta == MetaFromTei

(* _meta_from_tei applied to every header of HeaderInputs. *)
SpecMeta == InitMeta /\ [][NextMeta]_vars

----------------------------------------------------------------------------
(* GrobidParser._parse_tei_to_paragraphs.  A paragraph node carries the text of
   p.itertext(), its xml:id and its coords attribute, both possibly absent. *)

DigitValue(ch) ==
    CASE ch = "0" -> 0 [] ch = "1" -> 1 [] ch = "2" -> 2 [] ch = "3" -> 3 [] ch = "4" -> 4
      [] ch = "5" -> 5 [] ch = "6" -> 6 [] ch = "7" -> 7 [] ch = "8" -> 8 [] ch = "9" -> 9

(* What int() reads of a string: surrounding whitespace and one sign removed. *)
IntBody(s) ==
    LET t == Strip(s, Whitespace)
    IN IF t # << >> /\ t[1] \in {"+", "-"} THEN Tail(t) ELSE t

(* int(s) returns: digits, possibly with single underscores between them. *)
IsIntLiteral(s) ==
    LET b == IntBody(s)
    IN /\ b # << >>
       /\ \A i \in 1..Len(b) : b[i] \in Digits \cup {"_"}
       /\ b[1] # "_" /\ b[Len(b)] # "_"
       /\ \A i \in 1..(Len(b) - 1) : ~(b[i] = "_" /\ b[i + 1] = "_")

RECURSIVE DigitsValue(_, _)
DigitsValue(b, acc) ==
    IF b = << >> THEN acc
    ELSE IF Head(b) = "_" THEN DigitsValue(Tail(b), acc)
    ELSE DigitsValue(Tail(b), 10 * acc + DigitValue(Head(b)))

(* int(s) for a string that IsIntLiteral. *)
IntValue(s) ==
    LET t == Strip(s, Whitespace)
        v == DigitsValue(IntBody(s), 0)
    IN IF t[1] = "-" THEN 0 - v ELSE v

(* sorted(S) of a set of integers *)
RECURSIVE Sorted(_)
Sorted(S) ==
    IF S = {} THEN << >>
    ELSE LET m == CHOOSE x \in S : \A y \in S : x <= y
         IN <<m>> \o Sorted(S \ {m})

(* line 76, the boxes: coords.split(";") without the empty pieces *)
Boxes(coords) == SelectSeq(Split(coords, ";"), LAMBDA bb : bb # << >>)

(* line 76, bb.split(",")[0] *)
PageField(bb) == Split(bb, ",")[1]

(* The pages in the order of the boxes, duplicates kept. *)
PagesList_Unsorted(coords) ==
    LET bbs == Boxes(coords) IN [i \in 1..Len(bbs) |-> IntValue(PageField(bbs[i]))]

(* lines 75-77, for boxes whose page fields int() accepts *)
PagesList(coords) ==
    LET bbs == Boxes(coords)
    IN Sorted({IntValue(PageField(bbs[i])) : i \in 1..Len(bbs)})

(* lines 82-90 *)
MakeParagraph(text, page_start, page_end, xml_id, coords) ==
    [text |-> text, page_start |-> page_start, page_end |-> page_end,
     para_id |-> xml_id, coords |-> coords]

ParseResult(raised, out) == [raised |-> raised, out |-> out]

(* lines 69-94, the loop over the paragraph nodes; an exception ends the call and
   nothing is returned. *)
RECURSIVE ParseLoop(_, _)
ParseLoop(nodes, out) ==
    IF nodes = << >> THEN ParseResult("none", out)
    ELSE LET p == Head(nodes)
             text == Strip(p.text, Whitespace)
         IN IF text = << >> THEN ParseLoop(Tail(nodes), out)
            ELSE IF TruthyStr(p.coords)
            THEN LET bbs == Boxes(p.coords[1])
                 IN IF \E i \in 1..Len(bbs) : ~IsIntLiteral(PageField(bbs[i]))
                    THEN ParseResult("ValueError", << >>)
                    ELSE LET pages_list == PagesList(p.coords[1])
                         IN IF pages_list = << >>
                            THEN ParseResult("IndexError", << >>)
                            ELSE ParseLoop(Tail(nodes),
                                     Append(out, MakeParagraph(text, pages_list[1],
                                                     pages_list[Len(pages_list)],
                                                     p.xml_id, p.coords)))
            ELSE ParseLoop(Tail(nodes),
                     Append(out, MakeParagraph(text, 1, 1, p.xml_id, p.coords)))

(* lines 64-95 *)
_parse_tei_to_paragraphs(nodes) == ParseLoop(nodes, << >>)

ParseTeiToParagraphs ==
    /\ teiNodes # NoneV
    /\ parsed = NoneV
    /\ parsed' = Some(_parse_tei_to_paragraphs(teiNodes[1]))
    /\ UNCHANGED <<tei, metaDoc, teiNodes, em, slugArg, slugRet, storeVars>>

(* The documents read: a node with any coords attribute of up to MaxBoxes pieces,
   between at most one node before it and at most one after it. *)

MaxBoxes == 3

Node(text, xml_id, coords) == [text |-> text, xml_id |-> xml_id, coords |-> coords]

CoordPieces ==
    {<< >>, <<"3", ",", "0">>, <<"5">>, <<"4", ",", "1">>, <<"1", "0", ",", "2">>,
     <<" ", "9", ",", "0">>, <<"-", "1", ",", "0">>, <<"x", ",", "1">>}

CoordStrs == {Join(ps, ";") : ps \in UNION {[1..k -> CoordPieces] : k \in 0..MaxBoxes}}

FewNodes ==
    { Node(<<" ", " ">>, NoneV, Some(<<"x">>)),
      Node(<<" ", "b", " ">>, Some("p2"), NoneV),
      Node(<<"c">>, NoneV, Some(<<"2", ",", "0", ";", "1", ",", "0">>)),
      Node(<<"d">>, NoneV, Some(<<";">>)),
      Node(<<"e">>, Some("p5"), Some(<< >>)) }

AtMostOne(S) == {<< >>} \cup {<<n>> : n \in S}

InitPara ==
    /\ InitStore
    /\ tei = NoneV
    /\ metaDoc = NoneV
    /\ \E before \in AtMostOne(FewNodes), c \in CoordStrs, after \in AtMostOne(FewNodes) :
          teiNodes = Some(before \o <<Node(<<"a", " ", "a", "\t">>, Some("p1"), Some(c))>> \o after)
    /\ parsed = NoneV
    /\ em = EmIdle
    /\ slugArg = NoneV
    /\ slugRet = NoneV

NextPara == ParseTeiToParagraphs

SpecPara == InitPara /\ [][NextPara]_vars

(* _slugify applied to every string of up to MaxSlugLen characters: letters in both
   cases, a digit, whitespace, a hyphen, punctuation and a non-ASCII letter. *)

MaxSlugLen == 4

SlugAlphabet == {"a", "B", "1", " ", "\t", "-", "!", "É"}

Slugify ==
    /\ slugArg # NoneV
    /\ slugRet = NoneV
    /\ slugRet' = Some(_slugify(slugArg[1]))
    /\ UNCHANGED <<tei, metaDoc, teiNodes, parsed, em, slugArg, storeVars>>

InitSlug ==
    /\ InitStore
    /\ tei = NoneV
    /\ metaDoc = NoneV
    /\ teiNodes = << >>
    /\ parsed = NoneV
    /\ em = EmIdle
    /\ \E k \in 0..MaxSlugLen : \E s \in [1..k -> SlugAlphabet] : slugArg = Some(s)
    /\ slugRet = NoneV

NextSlug == Slugify

SpecSlug == InitSlug /\ [][NextSlug]_vars

----------------------------------------------------------------------------
(* GrobidParser.extract_metadata.  A GROBID service either fails (httpx raises) or
   answers with markup, which _meta_from_tei either cannot read (etree raises) or
   reads the header fields of. *)

Answer(kind, h) == [kind |-> kind, fields |-> h]

AnsweredHeaders ==
    {Header(d, x, a, y, t) :
        d \in NoIds \cup {Some(<<"1", "/", "a">>)},
        x \in FewIds, a \in FewAuthors, y \in FewYears, t \in FewTitles}

Answers ==
    {Answer("HTTPError", NoneV), Answer("XMLSyntaxError", NoneV)}
        \cup {Answer("tei", Some(h)) : h \in AnsweredHeaders}

(* The try covers the HTTP call only: markup that cannot be read is not caught. *)
HeaderPathFails_HttpOnly(a) == a.kind = "HTTPError"

(* lines 29-32: the header path raised an Exception, from the service call or from
   _meta_from_tei. *)
HeaderPathFails(a) == a.kind # "tei"

(* extract_metadata is called. *)
EmCall ==
    /\ em.pc = "idle"
    /\ em' = [em EXCEPT !.pc = "header"]
    /\ UNCHANGED <<tei, metaDoc, teiNodes, parsed, slugArg, slugRet, storeVars>>

(* lines 29-32: the header service is called and its answer read. *)
EmHeader ==
    /\ em.pc = "header"
    /\ \E a \in Answers :
          em' = IF HeaderPathFails(a)
                THEN [em EXCEPT !.pc = "fallback", !.header = Some(a),
                                !.header_calls = @ + 1]
                ELSE IF a.kind = "tei"
                THEN [em EXCEPT !.pc = "done", !.header = Some(a),
                                !.header_calls = @ + 1,
                                !.result = Some(MetaDocument(a.fields[1]))]
                ELSE [em EXCEPT !.pc = "done", !.header = Some(a),
                                !.header_calls = @ + 1, !.raised = a.kind]
    /\ UNCHANGED <<tei, metaDoc, teiNodes, parsed, slugArg, slugRet, storeVars>>

(* lines 33-35: the full-document service is called and its answer read; an
   exception here leaves extract_metadata. *)
EmFallback ==
    /\ em.pc = "fallback"
    /\ \E a \in Answers :
          em' = IF a.kind = "tei"
                THEN [em EXCEPT !.pc = "done", !.full = Some(a), !.full_calls = @ + 1,
                                !.result = Some(MetaDocument(a.fields[1]))]
                ELSE [em EXCEPT !.pc = "done", !.full = Some(a), !.full_calls = @ + 1,
                                !.raised = a.kind]
    /\ UNCHANGED <<tei, metaDoc, teiNodes, parsed, slugArg, slugRet, storeVars>>

InitExtract == InitStore /\ InitParser

NextExtract == EmCall \/ EmHeader \/ EmFallback

SpecExtract == InitExtract /\ [][NextExtract]_vars

----------------------------------------------------------------------------
(* Properties of the store and of the pipeline *)

BothTables == {"documents", "chunks"}

CountRows(tbl, r) == Cardinality({i \in 1..Len(tbl) : tbl[i] = r})

IsPrefix(s, t) == Len(s) <= Len(t) /\ SubSeq(t, 1, Len(s)) = s

HasDocument(id) == \E j \in 1..Len(docsRows) : docsRows[j].doc_id = id

(* C1: in every reachable state, under any interleaving of ingest_pdf calls, also of
   calls that fail part-way, every row of the chunks table has a doc_id that some
   row of the documents table has; and a call that is about to write its chunks has
   its document row written. *)
C1_ChunkRowsHaveDocument ==
    /\ \A i \in 1..Len(chunkRows) : HasDocument(chunkRows[i].doc_id)
    /\ \A c \in Callers : pc[c] = "ing_upsert_chunks" => HasDocument(frame[c].doc[1].doc_id)

C1_Witness ==
    /\ chunkRows # << >>
    /\ \E c \in Callers : pc[c] = "idle" /\ op[c] = "ingest_pdf" /\ exc[c] = "StoreError"

(* C2: a create_or_open call that runs concurrently with another one on a database
   without tables never ends by raising "table already exists". *)
C2_ConcurrentOpenNeverRaises ==
    \A c \in Callers :
        ~(pc[c] = "idle" /\ op[c] = "create_or_open" /\ exc[c] = "TableAlreadyExists")

(* A step of create_or_open, called directly or from ingest_pdf. *)
CreateOrOpenStep(c) ==
    \/ CallCreateOrOpen(c)
    \/ CoBegin(c)
    \/ CoDocsTable(c)
    \/ CoCheckChunks(c)
    \/ CoChunksTable(c)
    \/ CoFinish(c)

(* C3: with one caller, once both tables exist (as they do after a successful
   create_or_open), no step of a further create_or_open call, on the same store
   object or on a new one, creates or removes a table, changes a row, or raises a
   table error: the call can only fail if the provider or the connection fails. *)
C3_SequentialIdempotent ==
    [][\A c \in Callers :
          (tables = BothTables /\ CreateOrOpenStep(c)) =>
              /\ tables' = BothTables
              /\ docsRows' = docsRows
              /\ chunkRows' = chunkRows
              /\ pc'[c] \notin {"co_create_docs", "co_create_chunks"}
              /\ ~(pc'[c] = "idle" /\ exc'[c] \in {"TableAlreadyExists", "TableNotFound"})
      ]_vars

C3_Witness ==
    /\ docsRows # << >>
    /\ store["A"].docs_tbl
    /\ pc["A"] = "idle" /\ op["A"] = "create_or_open" /\ exc["A"] = "ok"

(* The ingest_pdf calls that have written the row of Document d and not returned. *)
InFlight(d) ==
    Cardinality({c \in Callers : pc[c] = "ing_upsert_chunks" /\ frame[c].doc = Some(d)})

(* C4: the store is append-only, without merge or dedup: no step removes or changes
   a row of either table, an upsert of an empty list leaves its table as it was, and
   the documents table holds one row of a Document for every ingest_pdf call that
   has written it: n rows after n successful ingestions of one source. *)
C4_AppendOnly ==
    /\ [](\A d \in IngestDocs :
             CountRows(docsRows, DocumentRecord(d)) = ingested[d] + halfDone[d] + InFlight(d))
    /\ [][/\ IsPrefix(docsRows, docsRows')
          /\ IsPrefix(chunkRows, chunkRows')
          /\ \A c \in Callers :
                /\ UpsertDocuments(c, << >>) => docsRows' = docsRows
                /\ UpsertChunks(c, << >>) => chunkRows' = chunkRows
      ]_vars

C4_Witness ==
    \E d \in IngestDocs :
        /\ ingested[d] = 2
        /\ CountRows(docsRows, DocumentRecord(d)) = 2
        /\ \A c \in Callers : pc[c] = "idle" /\ op[c] = "ingest_pdf" /\ exc[c] = "ok"

(* A call of one of the store's data methods. *)
DataCall(c) ==
    \/ \E docs \in DocLists : UpsertDocuments(c, docs)
    \/ \E chunks \in ChunkLists : UpsertChunks(c, chunks)
    \/ \E k \in {1, DefaultTopK} : Search(c, k)

(* C5: the two table handles of a store object are both unset or both set; they
   become set only when a create_or_open call on the object succeeds; and on an
   object whose handles are unset upsert_documents, upsert_chunks and search raise
   an AssertionError, write nothing and leave the store object as it was. *)
C5_FailFastBeforeOpen ==
    /\ [](\A c \in Callers : store[c].docs_tbl = store[c].chunks_tbl)
    /\ [][\A c \in Callers :
             /\ (store'[c].docs_tbl /\ ~store[c].docs_tbl) => CoFinish(c)
             /\ (~store[c].docs_tbl /\ ~store[c].chunks_tbl /\ DataCall(c)) =>
                    /\ pc'[c] = "idle" /\ exc'[c] = "AssertionError"
                    /\ docsRows' = docsRows
                    /\ chunkRows' = chunkRows
                    /\ tables' = tables
                    /\ store' = store
      ]_vars

C5_Witness ==
    \E c \in Callers :
        /\ pc[c] = "idle" /\ op[c] = "upsert_chunks" /\ exc[c] = "AssertionError"
        /\ store[c].embedding_fn /\ ~store[c].chunks_tbl
        /\ tables # {}

(* C6: ingest_pdf called with a freshly constructed store and a PDF that yields at
   least one paragraph does not raise from its own code. *)
C6_FreshStoreIngestCompletes ==
    [][\A c \in Callers, pdf \in Pdfs, meta \in MetaArgs :
          (store[c] = FreshStore /\ ParserParagraphs(pdf) # << >> /\ CallIngestPdf(c, pdf, meta))
              => ~(pc'[c] = "idle" /\ exc'[c] \in {"RuntimeError", "AssertionError"})
      ]_vars

----------------------------------------------------------------------------
(* Properties of the doc_id *)

StartsWith(s, prefix) == Len(prefix) <= Len(s) /\ SubSeq(s, 1, Len(prefix)) = prefix

(* The strings that differ from s in letter case only. *)
RECURSIVE CaseVariants(_)
CaseVariants(s) ==
    IF s = << >> THEN {<< >>}
    ELSE {<<c>> \o r : c \in {e \in IdAlphabet \cup {Head(s)} : Lower(e) = Lower(Head(s))},
                       r \in CaseVariants(Tail(s))}

(* The headers that differ from h in the letter case of the DOI and in any of the
   other fields. *)
SameDoiHeaders(h) ==
    {Header(Some(d), x, a, y, t) :
        d \in CaseVariants(h.doi[1]),
        x \in FewIds, a \in FewAuthors, y \in FewYears, t \in FewTitles}

(* The headers without a DOI that have the arXiv id of h and differ in any of the
   other fields. *)
SameArxivHeaders(h) ==
    {Header(d, h.arxiv_id, a, y, t) :
        d \in NoIds, a \in FewAuthors, y \in FewYears, t \in FewTitles}

(* C7: the doc_id is chosen by strict priority.  With a DOI (a non-empty one) it
   starts with "doi-" and is the doc_id of every header with the same DOI up to letter
   case, whatever its title, authors, year and arXiv id; without a DOI and with an
   arXiv id it starts with "arxiv-" and is the doc_id of every header without a DOI
   and with that arXiv id; with neither it starts with neither prefix. *)
C7_DocIdPriority ==
    metaDoc # NoneV =>
        LET h == tei[1]
            id == metaDoc[1].doc_id
        IN /\ TruthyStr(h.doi) =>
                 /\ StartsWith(id, <<"d", "o", "i", "-">>)
                 /\ \A h2 \in SameDoiHeaders(h) : MetaDocument(h2).doc_id = id
           /\ (~TruthyStr(h.doi) /\ TruthyStr(h.arxiv_id)) =>
                 /\ StartsWith(id, <<"a", "r", "x", "i", "v", "-">>)
                 /\ \A h2 \in SameArxivHeaders(h) : MetaDocument(h2).doc_id = id
           /\ (~TruthyStr(h.doi) /\ ~TruthyStr(h.arxiv_id)) =>
                 /\ ~StartsWith(id, <<"d", "o", "i", "-">>)
                 /\ ~StartsWith(id, <<"a", "r", "x", "i", "v", "-">>)

C7_Witness ==
    /\ metaDoc # NoneV
    /\ tei[1].doi = Some(<<"A", "/", "a">>)
    /\ tei[1].arxiv_id # NoneV
    /\ tei[1].title = UntitledTitle
    /\ metaDoc[1].doc_id = <<"d", "o", "i", "-", "a", "-", "a">>
    /\ Header(Some(<<"a", "/", "A">>), NoneV, << >>, NoneV, <<"a", " ", "B">>)
           \in SameDoiHeaders(tei[1])

(* C8 as claimed: with a DOI the doc_id is "doi-" followed by slugify of the DOI
   string itself. *)
C8_DoiIdIsSlugOfDoi ==
    (metaDoc # NoneV /\ TruthyStr(tei[1].doi)) =>
        metaDoc[1].doc_id = <<"d", "o", "i", "-">> \o _slugify(tei[1].doi[1])

(* The words of s: its maximal runs of characters of [a-z0-9] after lower-casing,
   where the characters of seps end a run and every other character is dropped. *)
WordsOf(s, seps) ==
    LET low == LowerStr(s)
        kept == SelectSeq(low, LAMBDA ch : ch \in LowerLetters \cup Digits \cup seps)
        marked == [i \in 1..Len(kept) |-> IF kept[i] \in seps THEN "|" ELSE kept[i]]
    IN SelectSeq(Split(marked, "|"), LAMBDA w : w # << >>)

(* C8 as amended: with a DOI the doc_id is "doi-" followed by the words of the DOI
   joined by single hyphens, where "/" separates words just as whitespace and "-"
   do: it is slugify applied to the DOI with every "/" replaced by "-". *)
C8_DoiIdSlashIsHyphen ==
    (metaDoc # NoneV /\ TruthyStr(tei[1].doi)) =>
        metaDoc[1].doc_id =
            <<"d", "o", "i", "-">> \o Join(WordsOf(tei[1].doi[1], Whitespace \cup {"-", "/"}), "-")

C8_Witness ==
    /\ metaDoc # NoneV
    /\ tei[1].doi = Some(<<"1", "/", "a">>)
    /\ metaDoc[1].doc_id = <<"d", "o", "i", "-", "1", "-", "a">>

(* C9: without DOI and arXiv id the doc_id is the author token, the year or "nd"
   (a year of 0 counts as no year), a hyphen and the title token.  The author token
   is the slug of the last space-separated token of the first author's name, and
   "doc" when there is no author or that slug is empty; the title token is the first
   six hyphen-separated words of the slugified title, and "untitled" when the
   slugified title is empty. *)
C9_AuthorYearTitleForm ==
    (metaDoc # NoneV /\ ~TruthyStr(tei[1].doi) /\ ~TruthyStr(tei[1].arxiv_id)) =>
        LET h == tei[1]
            surname == IF h.authors = << >> THEN << >>
                       ELSE LET toks == Split(h.authors[1], " ") IN _slugify(toks[Len(toks)])
            authorToken == IF surname = << >> THEN <<"d", "o", "c">> ELSE surname
            yearToken == IF TruthyInt(h.year) THEN IntToStr(h.year[1]) ELSE <<"n", "d">>
            slug == _slugify(h.title)
            titleToken == IF slug = << >> THEN <<"u", "n", "t", "i", "t", "l", "e", "d">>
                          ELSE Join(Take(Split(slug, "-"), 6), "-")
        IN /\ authorToken # << >> /\ titleToken # << >>
           /\ metaDoc[1].doc_id = authorToken \o yearToken \o <<"-">> \o titleToken

----------------------------------------------------------------------------
(* Properties of the paragraphs *)

(* The nodes whose text is not empty after trimming, in document order. *)
TextNodes(nodes) == SelectSeq(nodes, LAMBDA p : Strip(p.text, Whitespace) # << >>)

(* The page numbers of the coordinate boxes of a node. *)
BoxPageSet(p) ==
    IF p.coords = NoneV THEN {}
    ELSE {IntValue(PageField(bb)) :
             bb \in {q \in {Split(p.coords[1], ";")[i] : i \in 1..Len(Split(p.coords[1], ";"))} :
                        q # << >>}}

(* C10: when _parse_tei_to_paragraphs returns, its paragraphs are those of the nodes
   with non-empty trimmed text, in document order, each with that trimmed text;
   page_start <= page_end, page_start is the least and page_end the greatest page of
   the node's coordinate boxes, and a node without coordinate boxes has (1, 1). *)
C10_PageSpans ==
    (parsed # NoneV /\ parsed[1].raised = "none") =>
        LET out == parsed[1].out
            src == TextNodes(teiNodes[1])
        IN /\ Len(out) = Len(src)
           /\ \A i \in 1..Len(out) :
                 LET pages == BoxPageSet(src[i])
                 IN /\ out[i].text = Strip(src[i].text, Whitespace)
                    /\ out[i].text # << >>
                    /\ out[i].para_id = src[i].xml_id
                    /\ out[i].page_start <= out[i].page_end
                    /\ pages # {} =>
                          /\ out[i].page_start \in pages /\ out[i].page_end \in pages
                          /\ \A q \in pages : out[i].page_start <= q /\ q <= out[i].page_end
                    /\ pages = {} => (out[i].page_start = 1 /\ out[i].page_end = 1)

C10_Witness ==
    /\ parsed # NoneV
    /\ parsed[1].raised = "none"
    /\ Len(teiNodes[1]) = 3
    /\ Len(parsed[1].out) = 2
    /\ BoxPageSet(teiNodes[1][2]) = {3, 5, 4}
    /\ parsed[1].out[1].page_start = 3 /\ parsed[1].out[1].page_end = 5
    /\ parsed[1].out[2].page_start = 1 /\ parsed[1].out[2].page_end = 1

(* A node the loop can turn into a paragraph: its coords attribute, when it has
   one that is not empty, has at least one box and only numeric page fields. *)
WellFormed(p) ==
    TruthyStr(p.coords) =>
        /\ Boxes(p.coords[1]) # << >>
        /\ \A i \in 1..Len(Boxes(p.coords[1])) : IsIntLiteral(PageField(Boxes(p.coords[1])[i]))

(* C11: paragraph extraction never raises; a node that cannot be parsed (a
   non-numeric page field, or coords that yield no box) is skipped alone, and the
   paragraphs of all well-formed nodes with text are returned, in order. *)
C11_MalformedNodesSkipped ==
    parsed # NoneV =>
        LET good == SelectSeq(TextNodes(teiNodes[1]), WellFormed)
        IN /\ parsed[1].raised = "none"
           /\ Len(parsed[1].out) = Len(good)
           /\ \A i \in 1..Len(good) :
                 parsed[1].out[i].text = Strip(good[i].text, Whitespace)

----------------------------------------------------------------------------
(* Properties of ingest_pdf *)

(* The chunk carries the Document's fields. *)
Denormalized(ch, doc) ==
    /\ ch.doc_id = doc.doc_id
    /\ ch.title = doc.title
    /\ ch.authors = doc.authors
    /\ ch.venue = doc.venue
    /\ ch.year = doc.year
    /\ ch.doi = doc.doi
    /\ ch.arxiv_id = doc.arxiv_id

(* The input file a Document was built from. *)
PdfOf(doc) == doc.pdf_sha256[1][2]

(* The rows of the chunks table, then the chunks held by the calls in progress. *)
AllChunks ==
    LET RECURSIVE Flight(_)
        Flight(cs) ==
            IF cs = {} THEN << >>
            ELSE LET c == CHOOSE x \in cs : TRUE
                 IN frame[c].chunks \o Flight(cs \ {c})
    IN chunkRows \o Flight(Callers)

(* C12: the chunks ingest_pdf has built are one per paragraph, in paragraph order,
   each with the text and the pages of its paragraph and with the doc_id, title,
   authors, venue, year, doi and arxiv_id of the Document of the call; the rows
   written for the Document a call returned carry that Document's fields; no two
   chunks of any ingestions have the same chunk_id. *)
C12_OneChunkPerParagraph ==
    /\ \A c \in Callers :
          frame[c].doc # NoneV =>
             LET doc == frame[c].doc[1]
                 chunks == frame[c].chunks
                 paragraphs == ParserParagraphs(PdfOf(doc))
             IN /\ Len(chunks) = Len(paragraphs)
                /\ \A i \in 1..Len(chunks) :
                      /\ chunks[i].text = paragraphs[i].text
                      /\ chunks[i].page_start = paragraphs[i].page_start
                      /\ chunks[i].page_end = paragraphs[i].page_end
                      /\ Denormalized(chunks[i], doc)
    /\ \A c \in Callers :
          (op[c] = "ingest_pdf" /\ pc[c] = "idle" /\ exc[c] = "ok") =>
             /\ ret[c].doc # NoneV
             /\ \A i \in 1..Len(chunkRows) :
                   chunkRows[i].doc_id = ret[c].doc[1].doc_id =>
                      Denormalized(chunkRows[i], ret[c].doc[1])
    /\ \A i, j \in 1..Len(AllChunks) :
          i # j => AllChunks[i].chunk_id # AllChunks[j].chunk_id

C12_Witness ==
    /\ Len(chunkRows) = 4
    /\ \E c \in Callers :
          /\ op[c] = "ingest_pdf" /\ pc[c] = "idle" /\ exc[c] = "ok"
          /\ ret[c].doc[1].doc_id = "doi-10-1-x"
          /\ chunkRows[4].doc_id = "doi-10-1-x"
          /\ chunkRows[4].text = "method"
          /\ chunkRows[4].page_start = 2 /\ chunkRows[4].page_end = 3

(* n is the greatest page_end of the paragraphs, and 0 when there are none. *)
IsMaxPage(n, paragraphs) ==
    IF paragraphs = << >> THEN n = 0
    ELSE /\ \E i \in 1..Len(paragraphs) : paragraphs[i].page_end = n
         /\ \A i \in 1..Len(paragraphs) : paragraphs[i].page_end <= n

(* C13: the Document of an ingest_pdf call, and every documents row written, has as
   n_pages the greatest page_end of the paragraphs of its source, and 0 when there are
   none.  A source without paragraphs is not an error: the call does not fail on
   store.dim, it writes exactly one documents row, with n_pages = 0, writes no chunk
   row and returns that Document. *)
C13_NPagesAndEmptySource ==
    /\ [](/\ \A c \in Callers :
               frame[c].doc # NoneV =>
                  IsMaxPage(frame[c].doc[1].n_pages, ParserParagraphs(PdfOf(frame[c].doc[1])))
          /\ \A i \in 1..Len(docsRows) :
               IsMaxPage(docsRows[i].n_pages, ParserParagraphs(PdfOf(docsRows[i]))))
    /\ [][\A c \in Callers :
            /\ (\E m \in MetaArgs : CallIngestPdf(c, "pdf2", m)) =>
                  (pc'[c] = "idle" => exc'[c] \in {"ExtractMetadataError", "ParseError"})
            /\ (IngestUpsertDocs(c) /\ frame[c].chunks = << >> /\ pc'[c] # "idle") =>
                  /\ Len(docsRows') = Len(docsRows) + 1
                  /\ docsRows'[Len(docsRows')].n_pages = 0
                  /\ docsRows'[Len(docsRows')].doc_id = frame[c].doc[1].doc_id
            /\ (IngestUpsertChunks(c) /\ frame[c].chunks = << >>) =>
                  /\ exc'[c] = "ok"
                  /\ ret'[c].doc = frame[c].doc
                  /\ ret'[c].doc[1].n_pages = 0
                  /\ docsRows' = docsRows
                  /\ chunkRows' = chunkRows]_vars

C13_Witness ==
    /\ calls = 1
    /\ \E c \in Callers :
          /\ op[c] = "ingest_pdf" /\ pc[c] = "idle" /\ exc[c] = "ok"
          /\ ret[c].doc[1].n_pages = 0
    /\ Len(docsRows) = 1
    /\ docsRows[1].n_pages = 0
    /\ chunkRows = << >>

----------------------------------------------------------------------------
(* Properties of search *)

(* The citation of a result row, piece by piece. *)
CitationOf(row) ==
    LET authorToken == CASE Len(row.authors) > 1 -> <<row.authors[1], " et al.">>
                         [] Len(row.authors) = 1 -> <<row.authors[1]>>
                         [] Len(row.authors) = 0 -> <<"Unknown">>
        yearToken == IF row.year = NoneV \/ row.year = Some(0) THEN <<"">> ELSE row.year
        pageToken == IF row.page_start = row.page_end
                     THEN <<"p. ", row.page_start>>
                     ELSE <<"pp. ", row.page_start, "-", row.page_end>>
    IN <<authorToken, " ", row.title, " (", yearToken, "), ", pageToken>>

(* C14: a search that returns gives one hit per row of the engine, in the engine's
   order; the citation of each hit is "<author token> <title> (<year or empty>),
   <page token>", with "<first author> et al." for several authors, the name of a
   sole author and "Unknown" for none, and "p. N" for a single page and
   "pp. <page_start>-<page_end>" otherwise; its page_span is (page_start, page_end)
   of the row. *)
C14_CitationFormat ==
    [][\A c \in Callers, k \in {1, DefaultTopK} :
          (Search(c, k) /\ exc'[c] = "ok") =>
             LET rows == EngineRows(chunkRows, k)
                 hits == ret'[c].hits
             IN /\ Len(hits) = Len(rows)
                /\ \A i \in 1..Len(rows) :
                      /\ hits[i].citation = CitationOf(rows[i])
                      /\ hits[i].page_span = <<rows[i].page_start, rows[i].page_end>>
                      /\ hits[i].doc_id = rows[i].doc_id
                      /\ hits[i].text = rows[i].text]_vars

C14_Witness ==
    \E c \in Callers :
       /\ op[c] = "search" /\ pc[c] = "idle" /\ exc[c] = "ok"
       /\ Len(ret[c].hits) = 2
       /\ ret[c].hits[1].citation =
             <<<<"Ada Lovelace", " et al.">>, " ", "Analytical Engines", " (", <<1843>>, "), ",
               <<"p. ", 1>> >>
       /\ ret[c].hits[2].citation =
             <<<<"Ada Lovelace", " et al.">>, " ", "Analytical Engines", " (", <<1843>>, "), ",
               <<"pp. ", 2, "-", 3>> >>
       /\ ret[c].hits[2].page_span = <<2, 3>>

----------------------------------------------------------------------------
(* Properties of extract_metadata *)

(* C15: when extract_metadata has ended: if the header path succeeded, the Document
   is the one of the header markup and the full-document service was not called; if
   the header path failed and the full-document path succeeded, the Document is the
   one of the full-document markup; an error reached the caller only if both paths
   failed, and it is the error of the full-document path. *)
C15_HeaderFallback ==
    em.pc = "done" =>
        /\ em.header_calls = 1
        /\ em.header[1].kind = "tei" =>
              /\ em.raised = "none"
              /\ em.result = Some(MetaDocument(em.header[1].fields[1]))
              /\ em.full_calls = 0
        /\ em.header[1].kind # "tei" =>
              /\ em.full_calls = 1
              /\ em.full[1].kind = "tei" =>
                    /\ em.raised = "none"
                    /\ em.result = Some(MetaDocument(em.full[1].fields[1]))
              /\ em.full[1].kind # "tei" =>
                    /\ em.raised = em.full[1].kind
                    /\ em.result = NoneV
        /\ em.raised # "none" =>
              /\ em.header[1].kind # "tei"
              /\ em.full # NoneV /\ em.full[1].kind # "tei"

C15_Witness ==
    /\ em.pc = "done"
    /\ em.header = Some(Answer("XMLSyntaxError", NoneV))
    /\ em.full_calls = 1
    /\ em.raised = "none"
    /\ em.result # NoneV
    /\ em.result[1].doc_id = <<"d", "o", "i", "-", "1", "-", "a">>

----------------------------------------------------------------------------
(* Properties of _slugify *)

(* C16: _slugify returns for every string, and what it returns is left as it is by
   _slugify; it has only characters of [a-z0-9-], no two hyphens in a row and no
   hyphen at either end.  It is the words of the string joined by single hyphens: the
   runs of characters of [a-z0-9] after lower-casing that whitespace and hyphens
   divide, every other character being dropped. *)
C16_SlugifyShape ==
    slugRet # NoneV =>
        LET r == slugRet[1]
        IN /\ _slugify(r) = r
           /\ \A i \in 1..Len(r) : r[i] \in LowerLetters \cup Digits \cup {"-"}
           /\ \A i \in 1..(Len(r) - 1) : ~(r[i] = "-" /\ r[i + 1] = "-")
           /\ r # << >> => (r[1] # "-" /\ r[Len(r)] # "-")
           /\ r = Join(WordsOf(slugArg[1], Whitespace \cup {"-"}), "-")

C16_Witness ==
    /\ slugArg = Some(<<"B", " ", "\t", "a">>)
    /\ slugRet = Some(<<"b", "-", "a">>)

----------------------------------------------------------------------------
(* Properties of ingest_pdf when the parser fails *)

(* C17: an ingest_pdf call that ends with the error of parser.extract_metadata or of
   parser.parse has left the set of tables, the rows of both tables and the store
   object as they were.  With meta supplied the call never ends with the error of
   extract_metadata, the Document it builds has meta's doc_id, and the Document it
   returns is the one it built. *)
C17_ParserFailureLeavesStore ==
    [][\A c \in Callers :
          /\ \A pdf \in Pdfs, meta \in MetaArgs :
                CallIngestPdf(c, pdf, meta) =>
                   /\ (pc'[c] = "idle" /\ exc'[c] \in {"ExtractMetadataError", "ParseError"}) =>
                         /\ tables' = tables
                         /\ docsRows' = docsRows
                         /\ chunkRows' = chunkRows
                         /\ ftsIndex' = ftsIndex
                         /\ store' = store
                         /\ ret'[c].doc = NoneV
                   /\ meta # NoneV =>
                         /\ ~(pc'[c] = "idle" /\ exc'[c] = "ExtractMetadataError")
                         /\ pc'[c] # "idle" =>
                               /\ frame'[c].doc # NoneV
                               /\ frame'[c].doc[1].doc_id = meta[1].doc_id
          /\ (frame[c].doc # NoneV /\ pc'[c] # "idle") => frame'[c].doc = frame[c].doc
          /\ (IngestUpsertChunks(c) /\ exc'[c] = "ok") => ret'[c].doc = frame[c].doc
      ]_vars

C17_Witness ==
    \E c, c2 \in Callers :
       /\ op[c] = "ingest_pdf" /\ pc[c] = "idle" /\ exc[c] = "ExtractMetadataError"
       /\ op[c2] = "ingest_pdf" /\ pc[c2] = "idle" /\ exc[c2] = "ok"
       /\ ret[c2].doc # NoneV
       /\ ret[c2].doc[1].doc_id = SuppliedMeta.doc_id
       /\ tables = BothTables
       /\ Len(docsRows) = 1
       /\ calls = 2

====
